---------------------------- MODULE Spec2Model ----------------------------
(***************************************************************************)
(* A model of postgrez: the COPY command builders, the IteratorFile row    *)
(* stream, the export parser and the Connection / Load / Export session.   *)
(*                                                                         *)
(* Text is a sequence of one-character strings, so that formatting,        *)
(* splitting and slicing are computed character by character, the way the  *)
(* Python code computes them.                                              *)
(***************************************************************************)
EXTENDS Integers, Sequences, FiniteSets, TLC

(***************************************************************************)
(* Text helpers (Python str operations)                                    *)
(***************************************************************************)

\* sep.join(parts)
RECURSIVE Join(_, _)
Join(parts, sep) ==
    IF parts = <<>> THEN <<>>
    ELSE IF Len(parts) = 1 THEN parts[1]
    ELSE parts[1] \o sep \o Join(Tail(parts), sep)

\* text.split(sep) for a one-character sep: always at least one piece
RECURSIVE Split(_, _)
Split(text, sep) ==
    IF \A i \in 1..Len(text) : text[i] # sep THEN <<text>>
    ELSE LET i == CHOOSE k \in 1..Len(text) :
                      text[k] = sep /\ \A j \in 1..(k-1) : text[j] # sep
         IN  <<SubSeq(text, 1, i-1)>> \o Split(SubSeq(text, i+1, Len(text)), sep)

\* seq[start:stop] with Python's treatment of negative and out-of-range indices
PySlice(seq, start, stop) ==
    LET n     == Len(seq)
        norm(k) == IF k < 0 THEN (IF k + n < 0 THEN 0 ELSE k + n)
                   ELSE (IF k > n THEN n ELSE k)
    IN  SubSeq(seq, norm(start) + 1, norm(stop))

UpperAlpha ==
    <<"A","B","C","D","E","F","G","H","I","J","K","L","M",
      "N","O","P","Q","R","S","T","U","V","W","X","Y","Z">>
LowerAlpha ==
    <<"a","b","c","d","e","f","g","h","i","j","k","l","m",
      "n","o","p","q","r","s","t","u","v","w","x","y","z">>

\* str.lower() on one character
LowerChar(c) ==
    IF \E i \in 1..26 : UpperAlpha[i] = c
    THEN LowerAlpha[CHOOSE i \in 1..26 : UpperAlpha[i] = c]
    ELSE c

\* str.lower()
Lower(text) == [i \in 1..Len(text) |-> LowerChar(text[i])]

\* the characters the regex class \s matches
Whitespace == {" ", "\t", "\n", "\r", "\f"}

\* text with its leading whitespace removed (what the greedy \s* consumes)
RECURSIVE SkipSpace(_)
SkipSpace(text) ==
    IF text # <<>> /\ Head(text) \in Whitespace THEN SkipSpace(Tail(text))
    ELSE text

(***************************************************************************)
(* Literals of the source                                                  *)
(***************************************************************************)
S_select     == <<"s","e","l","e","c","t">>
S_load       == <<"l","o","a","d">>
S_export     == <<"e","x","p","o","r","t">>
S_FROM_STDIN == <<"F","R","O","M"," ","S","T","D","I","N">>
S_TO_STDOUT  == <<"T","O"," ","S","T","D","O","U","T">>
S_COPY       == <<"C","O","P","Y"," ">>
S_WITH_DELIM == <<" ","W","I","T","H"," ","D","E","L","I","M","I","T","E","R"," ","'">>
S_CSV        == <<" ","C","S","V"," ">>
S_HEADER     == <<"H","E","A","D","E","R">>
S_QUOTE      == <<"Q","U","O","T","E"," ">>
S_NULL       == <<"N","U","L","L"," ">>
NL           == "\n"
PIPE         == "|"

\* A returned value: None, a str, or a list
None      == [kind |-> "None", value |-> <<>>]
Str(text) == [kind |-> "str",  value |-> text]
List(xs)  == [kind |-> "list", value |-> xs]

(***************************************************************************)
(* re.match('\s*select', query, re.IGNORECASE)                             *)
(***************************************************************************)
\* a match that does not ignore case
MatchCase_Sensitive(text) == text

\* re.IGNORECASE
MatchCase(text) == Lower(text)

IsSelectQuery(query) ==
    LET rest == SkipSpace(query)
    IN  Len(rest) >= 6 /\ MatchCase(SubSeq(rest, 1, 6)) = S_select

\* '(' + ','.join(columns) + ')'
ColumnList(columns) == <<"(">> \o Join(columns, <<",">>) \o <<")">>

(***************************************************************************)
(* utils.build_copy_query.  columns = <<>> stands for None and for [],     *)
(* quote / null = <<>> for None and for '': the code tests only their      *)
(* truth value.  The result is [raised, ret].                              *)
(***************************************************************************)
CopyMode(mode) ==
    IF Lower(mode) = S_load THEN Str(S_FROM_STDIN)
    ELSE IF Lower(mode) = S_export THEN Str(S_TO_STDOUT)
    ELSE None

\* a template with the QUOTE and NULL slots exchanged
CopyTemplate_Swapped(a0, a1, a2, a3, a4, a5, a6) ==
    S_COPY \o a0 \o <<" ">> \o a1 \o <<" ">> \o a2 \o S_WITH_DELIM \o a3
        \o <<"'", " ">> \o S_CSV \o a4 \o <<" ">> \o a6 \o <<" ">> \o a5

\* the format template "COPY {0} {1} {2} WITH DELIMITER '{3}' " " CSV {4} {5} {6}"
CopyTemplate(a0, a1, a2, a3, a4, a5, a6) ==
    S_COPY \o a0 \o <<" ">> \o a1 \o <<" ">> \o a2 \o S_WITH_DELIM \o a3
        \o <<"'", " ">> \o S_CSV \o a4 \o <<" ">> \o a5 \o <<" ">> \o a6

build_copy_query(mode, query, columns, delimiter, header, quote, null) ==
    LET cols0     == IF columns # <<>> THEN ColumnList(columns) ELSE <<>>
        copy_mode == CopyMode(mode)
        isQuery   == IsSelectQuery(query)
        cols      == IF isQuery THEN <<>> ELSE cols0
        target    == IF isQuery THEN <<"(">> \o query \o <<")">> ELSE query
    IN  IF copy_mode = None
        THEN [raised |-> "none", ret |-> None]
        ELSE [raised |-> "none",
              ret |-> Str(CopyTemplate(
                        target,
                        copy_mode.value,
                        cols,
                        delimiter,
                        IF header THEN S_HEADER ELSE <<>>,
                        IF quote # <<>> THEN S_QUOTE \o <<"'">> \o quote \o <<"'">>
                                        ELSE <<>>,
                        IF null # <<>> THEN S_NULL \o <<"'">> \o null \o <<"'">>
                                       ELSE <<>>))]

(***************************************************************************)
(* Export._build_copy_query                                                *)
(***************************************************************************)
\* "COPY {0} {1} TO STDOUT WITH DELIMITER '{2}' " " CSV {3}" and its
\* parenthesised variant "COPY ({0}) {1} TO STDOUT ..."
ExportTemplate(paren, a0, a1, a2, a3) ==
    S_COPY \o (IF paren THEN <<"(">> \o a0 \o <<")">> ELSE a0) \o <<" ">> \o a1
        \o <<" ">> \o S_TO_STDOUT \o S_WITH_DELIM \o a2 \o <<"'", " ">>
        \o S_CSV \o a3

_build_copy_query(query, columns, delimiter, header) ==
    LET cols0   == IF columns # <<>> THEN ColumnList(columns) ELSE <<>>
        isQuery == IsSelectQuery(query)
        cols    == IF isQuery THEN <<>> ELSE cols0
    IN  ExportTemplate(isQuery, query, cols, delimiter,
                       IF header THEN S_HEADER ELSE <<>>)

(***************************************************************************)
(* Inputs of the builders                                                  *)
(***************************************************************************)
\* targets that match ^\s*select ignoring case ("selections" does too)
QueryTargets ==
    { <<"s","e","l","e","c","t"," ","1">>,
      <<" "," ","S","E","L","E","C","T"," ","i","d">>,
      <<"\n","S","e","L","e","C","t"," ","x">>,
      <<"s","e","l","e","c","t","i","o","n","s">> }
\* targets that do not
TableTargets ==
    { <<"o","r","d","e","r","s">>,
      <<"t","_","s","e","l","e","c","t">>,
      <<" ","o","r","d","e","r","s">> }
Targets == QueryTargets \cup TableTargets

LoadModes   == { S_load, <<"L","O","A","D">> }
ExportModes == { S_export, <<"E","x","p","o","r","t">> }
OtherModes  == { <<"a","p","p","e","n","d">>, <<>> }
Modes       == LoadModes \cup ExportModes \cup OtherModes

C_id     == <<"i","d">>
C_amount == <<"a","m","o","u","n","t">>
ColumnChoices == { <<>>, <<C_id>>, <<C_id, C_amount>> }
Delimiters    == { <<",">> }
QuoteChoices  == { <<>>, <<"\"">> }
NullChoices   == { <<>>, <<"N","U","L","L">> }

BuildArgs ==
    [mode : Modes, query : Targets, columns : ColumnChoices,
     delimiter : Delimiters, header : BOOLEAN,
     quote : QuoteChoices, null : NullChoices]

(***************************************************************************)
(* Bounds of the enumerated inputs                                         *)
(***************************************************************************)
MaxRows  == 2   \* rows in a load's data, data lines in an export's output
MaxWidth == 2   \* fields in a row
MaxRead  == 3   \* the small lengths the primitive passes to read()
\* read()'s default length, sys.maxsize (its value on a 32-bit build)
MaxSize  == 2147483647

\* all sequences over S of a length in lo..hi
SeqsOf(S, lo, hi) == UNION { [1..n -> S] : n \in lo..hi }

(***************************************************************************)
(* IteratorFile over the generator of Load.load_from_object                *)
(***************************************************************************)
\* template_string.format(*x) with template_string = "|".join(['{}'] * width):
\* fails (IndexError) on a row with fewer fields, ignores the fields beyond
\* width.  Fields are already text (str() of a scalar).
FormatFails(width, x) == Len(x) < width
FormatRow(width, x)   == Join(SubSeq(x, 1, width), <<PIPE>>)

\* The while loop of IteratorFile.read: pull rows while the buffer is
\* shorter than length.  s = [f, it, done, stopped, failed]: the buffer,
\* the rows the generator has consumed, whether the generator has finished
\* (a finished generator raises StopIteration on every next()), whether
\* read has caught StopIteration, whether an exception other than
\* StopIteration ended the loop.
\* a source that starts over once it is exhausted
RECURSIVE Pull_Rewinding(_, _, _)
Pull_Rewinding(data, s, length) ==
    IF ~(Len(s.f) < length) THEN s
    ELSE IF s.it >= Len(data)
         THEN [s EXCEPT !.done = TRUE, !.stopped = TRUE, !.it = 0]
    ELSE IF Len(data[s.it + 1]) < Len(data[1])
         THEN [s EXCEPT !.done = TRUE, !.failed = TRUE, !.it = s.it + 1]
    ELSE Pull_Rewinding(data,
              [s EXCEPT !.f  = s.f \o Join(SubSeq(data[s.it + 1], 1, Len(data[1])),
                                           <<"|">>) \o <<"\n">>,
                        !.it = s.it + 1],
              length)

\* a loop that pulls one more row when the buffer holds exactly length
PullMore_OffByOne(s, length) == Len(s.f) <= length

PullMore(s, length) == Len(s.f) < length

RECURSIVE Pull(_, _, _)
Pull(data, s, length) ==
    IF ~PullMore(s, length) THEN s
    ELSE IF s.done \/ s.it >= Len(data)
         THEN [s EXCEPT !.done = TRUE, !.stopped = TRUE]    \* StopIteration
    ELSE IF FormatFails(Len(data[1]), data[s.it + 1])
         THEN [s EXCEPT !.done = TRUE, !.failed = TRUE,     \* except Exception
                        !.it = s.it + 1]
    ELSE Pull(data,
              [s EXCEPT !.f  = s.f \o FormatRow(Len(data[1]), data[s.it + 1])
                                   \o <<NL>>,
                        !.it = s.it + 1],
              length)

\* the finally block: data = _f.read(length), the remainder is kept
Chunk(buf, length) ==
    SubSeq(buf, 1, IF length < Len(buf) THEN length ELSE Len(buf))

\* a read that does not write the remainder back
Remainder_Lost(buf, length) == <<>>

Remainder(buf, length) ==
    SubSeq(buf, Len(Chunk(buf, length)) + 1, Len(buf))

(***************************************************************************)
(* Inputs of a load                                                        *)
(***************************************************************************)
LoadFields  == { <<"1">>, <<"2","3">> }
LoadRows    == SeqsOf(LoadFields, 1, MaxWidth)
DataChoices == SeqsOf(LoadRows, 0, MaxRows)
ReadLengths == (1..MaxRead) \cup {MaxSize}

(***************************************************************************)
(* State                                                                   *)
(***************************************************************************)
VARIABLES
    \* the session (Connection and its subclasses)
    conn,              \* self.conn:   "open" or "closed"
    cursor,            \* self.cursor: "open" or "closed"
    scope,             \* the with block: "inside" or "left"
    cursorCloseTried,  \* cursor.close() has been called
    connCloseTried,    \* conn.close() has been called
    closeRaised,       \* _disconnect / __exit__ raised
    \* the observed call
    op,        \* its name, "none" before it
    args,      \* its arguments
    ret,       \* what it returned (None, Str or List)
    raised,    \* the exception class it raised, "none" if it returned
    live,      \* cursor and connection were open when it was called
    built,     \* it built a COPY command
    primitive, \* it called cursor.copy_from / cursor.copy_expert /
               \* cursor.execute
    committed, \* it called conn.commit()
    file,      \* the file it opened: "none", "open" or "closed"
    \* the IteratorFile of a load_from_object and the primitive reading it
    pc,        \* "idle", or "copy_from" while the primitive runs
    it,        \* rows the generator has consumed
    itDone,    \* the generator has finished (exhausted or raised)
    f,         \* IteratorFile._f, the buffer
    sent,      \* the text read() has returned so far, concatenated
    eof,       \* the last read() returned ''
    stopped,   \* read() has caught StopIteration
    rowError   \* read() swallowed an exception of the generator

sessVars   == <<conn, cursor, scope, cursorCloseTried, connCloseTried, closeRaised>>
callVars   == <<op, args, ret, raised, live, built, primitive, committed, file>>
streamVars == <<pc, it, itDone, f, sent, eof, stopped, rowError>>
vars       == <<sessVars, callVars, streamVars>>

NoArgs == [none |-> TRUE]

\* a session right after construction: _connect has set conn and cursor
SessionInit ==
    /\ conn = "open" /\ cursor = "open" /\ scope = "inside"
    /\ cursorCloseTried = FALSE /\ connCloseTried = FALSE
    /\ closeRaised = FALSE

StreamIdle ==
    /\ pc = "idle" /\ it = 0 /\ itDone = FALSE /\ f = <<>> /\ sent = <<>>
    /\ eof = FALSE /\ stopped = FALSE /\ rowError = FALSE

StreamReset ==
    /\ pc' = "idle" /\ it' = 0 /\ itDone' = FALSE /\ f' = <<>> /\ sent' = <<>>
    /\ eof' = FALSE /\ stopped' = FALSE /\ rowError' = FALSE

CallIdle ==
    /\ op = "none" /\ ret = None /\ raised = "none"
    /\ live = FALSE /\ built = FALSE /\ primitive = FALSE
    /\ committed = FALSE /\ file = "none"

(***************************************************************************)
(* The builder as a pure function: Init draws the arguments, the action    *)
(* applies build_copy_query to them.                                       *)
(***************************************************************************)
InitBuild ==
    /\ SessionInit /\ StreamIdle /\ CallIdle
    /\ args \in BuildArgs

BuildCopyQuery ==
    /\ op = "none"
    /\ args \in BuildArgs
    /\ LET r == build_copy_query(args.mode, args.query, args.columns,
                                 args.delimiter, args.header, args.quote,
                                 args.null)
       IN  /\ ret' = r.ret
           /\ raised' = r.raised
    /\ op' = "build_copy_query"
    /\ UNCHANGED <<args, live, built, primitive, committed, file>>
    /\ UNCHANGED <<sessVars, streamVars>>

NextBuild == BuildCopyQuery

SpecBuild == InitBuild /\ [][NextBuild]_vars

(***************************************************************************)
(* Connection                                                              *)
(***************************************************************************)
\* Connection._connected: a conn or cursor object exists.  Both exist from
\* construction on; close() leaves the objects in place.
_connected == conn \in {"open", "closed"} \/ cursor \in {"open", "closed"}

\* what the psycopg2 primitives need: neither the cursor nor its connection
\* is closed
Live == conn = "open" /\ cursor = "open"

\* Connection._disconnect; cursorFails / connFails: the close() raises
_disconnect(cursorFails, connFails) ==
    /\ cursorCloseTried' = TRUE
    /\ IF cursorFails
       THEN /\ closeRaised' = TRUE
            /\ UNCHANGED <<cursor, conn, connCloseTried>>
       ELSE /\ cursor' = "closed"
            /\ connCloseTried' = TRUE
            /\ IF connFails
               THEN closeRaised' = TRUE /\ UNCHANGED conn
               ELSE conn' = "closed" /\ UNCHANGED closeRaised

\* a direct call of _disconnect before the observed call
Disconnect ==
    /\ scope = "inside" /\ op = "none" /\ pc = "idle"
    /\ \E cursorFails, connFails \in BOOLEAN :
           _disconnect(cursorFails, connFails)
    /\ UNCHANGED <<scope, callVars, streamVars>>

\* Connection.__exit__: the with block ends, after a call that returned or
\* raised, or before any.  The record of the call's arguments, result and
\* stream goes with the block; its name and its exception are kept.
Exit ==
    /\ scope = "inside" /\ pc = "idle"
    /\ scope' = "left"
    /\ IF _connected
       THEN \E cursorFails, connFails \in BOOLEAN :
                _disconnect(cursorFails, connFails)
       ELSE UNCHANGED <<conn, cursor, cursorCloseTried, connCloseTried,
                        closeRaised>>
    /\ args' = NoArgs /\ ret' = None
    /\ UNCHANGED <<op, raised, live, built, primitive, committed, file>>
    /\ StreamReset

(***************************************************************************)
(* Cmd                                                                     *)
(***************************************************************************)
\* Cmd.execute(query, commit=...); executeFails / commitFails: the database
\* rejects the query / the commit.  A closed cursor or a closed connection
\* makes cursor.execute raise.
Execute ==
    /\ op = "none" /\ pc = "idle"
    /\ op' = "execute"
    /\ live' = Live
    /\ \E commit, executeFails, commitFails \in BOOLEAN :
        /\ args' = [commit |-> commit]
        /\ IF ~_connected
           THEN /\ raised' = "PostgrezConnectionError"
                /\ UNCHANGED <<primitive, committed>>
           ELSE /\ primitive' = TRUE
                /\ IF ~Live \/ executeFails
                   THEN /\ raised' = "PostgrezExecuteError"
                        /\ UNCHANGED committed
                   ELSE /\ committed' = commit
                        /\ raised' = IF commit /\ commitFails
                                     THEN "PostgrezExecuteError" ELSE "none"
    /\ UNCHANGED <<ret, built, file>>
    /\ UNCHANGED <<sessVars, streamVars>>

(***************************************************************************)
(* Load                                                                    *)
(***************************************************************************)
\* Load.load_from_object up to the call of cursor.copy_from
LoadFromObject ==
    /\ op = "none" /\ pc = "idle"
    /\ \E data \in DataChoices :
        /\ op' = "load_from_object"
        /\ args' = [data |-> data]
        /\ live' = Live
        /\ UNCHANGED <<ret, built, committed, file>>
        /\ UNCHANGED <<it, itDone, f, sent, eof, stopped, rowError>>
        /\ IF data = <<>>
           THEN \* len(data[0]) raises IndexError
                /\ raised' = "PostgrezLoadError"
                /\ UNCHANGED <<primitive, pc>>
           ELSE /\ primitive' = TRUE
                /\ IF Live
                   THEN pc' = "copy_from" /\ UNCHANGED raised
                   ELSE \* the primitive refuses a closed cursor
                        raised' = "PostgrezLoadError" /\ UNCHANGED pc
    /\ UNCHANGED sessVars

\* IteratorFile.read(length): the loop, then the finally block
ReadWith(length) ==
    LET s == Pull(args.data,
                  [f |-> f, it |-> it, done |-> itDone, stopped |-> stopped,
                   failed |-> FALSE],
                  length)
    IN  /\ it' = s.it
        /\ itDone' = s.done
        /\ stopped' = s.stopped
        /\ rowError' = (rowError \/ s.failed)
        /\ f' = Remainder(s.f, length)
        /\ sent' = sent \o Chunk(s.f, length)
        /\ eof' = (Chunk(s.f, length) = <<>>)

\* a read() by the primitive, or by any reader of the IteratorFile: nothing
\* in read() stops a call after one that returned ''
Read ==
    /\ pc = "copy_from"
    /\ \E length \in ReadLengths : ReadWith(length)
    /\ UNCHANGED <<pc, sessVars, callVars>>

\* cursor.copy_from returns after read() returned '': conn.commit() follows
CopyReturns ==
    /\ pc = "copy_from" /\ eof
    /\ pc' = "idle"
    /\ committed' = TRUE
    /\ \E commitFails \in BOOLEAN :
           raised' = IF commitFails THEN "PostgrezLoadError" ELSE "none"
    /\ UNCHANGED <<op, args, ret, live, built, primitive, file>>
    /\ UNCHANGED <<it, itDone, f, sent, eof, stopped, rowError>>
    /\ UNCHANGED sessVars

\* cursor.copy_from raises (the database rejects the data, the link drops)
CopyFails ==
    /\ pc = "copy_from"
    /\ pc' = "idle"
    /\ raised' = "PostgrezLoadError"
    /\ UNCHANGED <<op, args, ret, live, built, primitive, committed, file>>
    /\ UNCHANGED <<it, itDone, f, sent, eof, stopped, rowError>>
    /\ UNCHANGED sessVars

\* Load.load_from_file: open(filename) fails, or the file is opened and the
\* evaluation of the undefined name `table` raises NameError inside the
\* with block, which closes the file
LoadFromFile ==
    /\ op = "none" /\ pc = "idle"
    /\ op' = "load_from_file"
    /\ args' = NoArgs
    /\ live' = Live
    /\ \E fileExists \in BOOLEAN :
           file' = IF fileExists THEN "closed" ELSE "none"
    /\ raised' = "PostgrezLoadError"
    /\ UNCHANGED <<ret, built, primitive, committed>>
    /\ UNCHANGED <<sessVars, streamVars>>

(***************************************************************************)
(* Export                                                                  *)
(***************************************************************************)
\* a dict as the sequence of its <<key, value>> items in insertion order
DictPut(d, k, v) ==
    IF \E j \in 1..Len(d) : d[j][1] = k
    THEN [j \in 1..Len(d) |-> IF d[j][1] = k THEN <<k, v>> ELSE d[j]]
    ELSE Append(d, <<k, v>>)

\* {cols[i]: value for i, value in enumerate(fields)}, from item i on
RECURSIVE RowDict(_, _, _, _)
RowDict(cols, fields, i, d) ==
    IF i > Len(fields) THEN d
    ELSE RowDict(cols, fields, i + 1, DictPut(d, cols[i], fields[i]))

\* end_index = (-1 if len(output[1:]) > 1 else 2)
EndIndex(output) == IF Len(Tail(output)) > 1 THEN -1 ELSE 2

\* the rows kept when header is false: output[1:-1]
PlainRows(output) == PySlice(output, 1, -1)

\* the parsing of Export.export_to_object (lines 389-397); cols[i] raises
\* IndexError on a row with more fields than the first line has
ParseExport(text, delimiter, header) ==
    LET output == Split(text, NL)
        cols   == Split(output[1], delimiter)
        lines  == IF header THEN PySlice(output, 1, EndIndex(output))
                  ELSE PlainRows(output)
        fields == [i \in 1..Len(lines) |-> Split(lines[i], delimiter)]
    IN  IF header /\ \E i \in 1..Len(fields) : Len(fields[i]) > Len(cols)
        THEN [raised |-> "PostgrezExportError", ret |-> None]
        ELSE IF header
        THEN [raised |-> "none",
              ret |-> List([i \in 1..Len(fields) |->
                               RowDict(cols, fields[i], 1, <<>>)])]
        ELSE [raised |-> "none", ret |-> List(fields)]

\* What COPY ... TO STDOUT WITH DELIMITER d CSV [HEADER] writes to the sink:
\* the header line if asked for, then one line per row, each line ended by
\* a newline
RECURSIVE Lines(_, _)
Lines(rows, delimiter) ==
    IF rows = <<>> THEN <<>>
    ELSE Join(Head(rows), delimiter) \o <<NL>> \o Lines(Tail(rows), delimiter)

CopyOutput(hdr, rows, delimiter, header) ==
    Lines((IF header THEN <<hdr>> ELSE <<>>) \o rows, delimiter)

C_amt        == <<"a","m","t">>
Headers      == { <<C_id>>, <<C_id, C_amt>> }
ExportValues == { <<"1">>, <<>> }
ExportRows   == SeqsOf(SeqsOf(ExportValues, 1, MaxWidth), 0, MaxRows)
ExportCalls  ==
    [query : { <<"o","r","d","e","r","s">>, <<"s","e","l","e","c","t"," ","1">> },
     columns : { <<>>, <<C_id, C_amount>> },
     delimiter : Delimiters, header : BOOLEAN]

\* Export.export_to_object.  The sink's content is the environment's: any
\* header and rows, written as COPY writes them.
ExportToObject ==
    /\ op = "none" /\ pc = "idle"
    /\ op' = "export_to_object"
    /\ live' = Live
    /\ built' = TRUE
    /\ primitive' = TRUE
    /\ \E call \in ExportCalls :
        LET copy_query == _build_copy_query(call.query, call.columns,
                                            call.delimiter, call.header)
        IN  \/ \* cursor.copy_expert raises: always on a closed cursor
               /\ args' = [call |-> call, copy_query |-> copy_query,
                           captured |-> FALSE, hdr |-> <<>>, rows |-> <<>>,
                           output |-> <<>>]
               /\ raised' = "PostgrezExportError"
               /\ ret' = None
            \/ /\ Live
               /\ \E hdr \in Headers, rows \in ExportRows :
                   LET output == CopyOutput(hdr, rows, call.delimiter, call.header)
                       r      == ParseExport(output, call.delimiter[1], call.header)
                   IN  /\ args' = [call |-> call, copy_query |-> copy_query,
                                   captured |-> TRUE, hdr |-> hdr, rows |-> rows,
                                   output |-> output]
                       /\ raised' = r.raised
                       /\ ret' = r.ret
    /\ UNCHANGED <<committed, file>>
    /\ UNCHANGED <<sessVars, streamVars>>

\* Export.export_to_file: the file is opened inside a with block, which
\* closes it whether copy_expert returns or raises
ExportToFile ==
    /\ op = "none" /\ pc = "idle"
    /\ op' = "export_to_file"
    /\ live' = Live
    /\ built' = TRUE
    /\ ret' = None
    /\ \E call \in ExportCalls, opened \in BOOLEAN, copyFails \in BOOLEAN :
        /\ args' = [call |-> call,
                    copy_query |-> _build_copy_query(call.query, call.columns,
                                       call.delimiter, call.header)]
        /\ file' = IF opened THEN "closed" ELSE "none"
        /\ primitive' = opened
        /\ raised' = IF ~opened \/ ~Live \/ copyFails
                     THEN "PostgrezExportError" ELSE "none"
    /\ UNCHANGED committed
    /\ UNCHANGED <<sessVars, streamVars>>

Init ==
    /\ SessionInit /\ StreamIdle /\ CallIdle
    /\ args = NoArgs

Next ==
    \/ Disconnect
    \/ Exit
    \/ Execute
    \/ LoadFromObject
    \/ Read
    \/ CopyReturns
    \/ CopyFails
    \/ LoadFromFile
    \/ ExportToObject
    \/ ExportToFile

Spec == Init /\ [][Next]_vars

(***************************************************************************)
(* Claims about build_copy_query (SpecBuild)                               *)
(***************************************************************************)
\* predicates on text the claims are stated with
IsPrefix(p, text) == Len(p) <= Len(text) /\ SubSeq(text, 1, Len(p)) = p

Contains(text, part) ==
    \E i \in 1..(Len(text) - Len(part) + 1) :
        SubSeq(text, i, i + Len(part) - 1) = part

Built == op = "build_copy_query"

ValidModes == LoadModes \cup ExportModes

\* the direction keyword the mode asks for
Direction(mode) == IF mode \in LoadModes THEN S_FROM_STDIN ELSE S_TO_STDOUT

\* C4: for a table target with a non-empty column list, in load and in
\* export mode, the command holds the parenthesised, comma-joined column
\* list right after the target and before the direction keyword.
C4_ColumnsBeforeDirection ==
    (Built /\ args.query \in TableTargets /\ args.columns # <<>>
           /\ args.mode \in ValidModes)
    => /\ ret.kind = "str"
       /\ IsPrefix(S_COPY \o args.query \o <<" ">> \o ColumnList(args.columns)
                     \o <<" ">> \o Direction(args.mode),
                   ret.value)

\* C5: for a target matching ^\s*select (any case, leading whitespace
\* allowed), in load and in export mode, the build succeeds, the target is
\* wrapped in one pair of parentheses and a supplied column list does not
\* appear in the command.
C5_QueryWrappedColumnsDropped ==
    (Built /\ args.query \in QueryTargets /\ args.mode \in ValidModes)
    => /\ raised = "none"
       /\ ret.kind = "str"
       /\ IsPrefix(S_COPY \o <<"(">> \o args.query \o <<")", " ">>
                     \o Direction(args.mode),
                   ret.value)
       /\ args.columns # <<>> => ~Contains(ret.value, ColumnList(args.columns))

\* a load (mode 'LOAD') of an upper-case, indented query with columns
C5_Witness ==
    /\ Built
    /\ args.query = <<" "," ","S","E","L","E","C","T"," ","i","d">>
    /\ args.columns = <<C_id, C_amount>>
    /\ args.mode = <<"L","O","A","D">>
    /\ ret.kind = "str"

OrdersScenario ==
    [mode |-> S_export, query |-> <<"o","r","d","e","r","s">>,
     columns |-> <<C_id, C_amount>>, delimiter |-> <<",">>, header |-> TRUE,
     quote |-> <<>>, null |-> <<>>]

\* "COPY orders (id,amount) TO STDOUT WITH DELIMITER ',' CSV HEADER"
OrdersCommand ==
    <<"C","O","P","Y"," ","o","r","d","e","r","s"," ","(","i","d",",",
      "a","m","o","u","n","t",")"," ","T","O"," ","S","T","D","O","U","T",
      " ","W","I","T","H"," ","D","E","L","I","M","I","T","E","R"," ","'",
      ",","'"," ","C","S","V"," ","H","E","A","D","E","R">>

\* C6: the export of table orders with columns id, amount, delimiter ','
\* and header is exactly OrdersCommand: single spaces, nothing for the
\* unset QUOTE and NULL options.
C6_OrdersCommandExact ==
    (Built /\ args = OrdersScenario) => ret = Str(OrdersCommand)

\* C7: with a mode other than load / export (ignoring case) the build
\* raises; it never returns, with a command or with None.
C7_InvalidModeRaises ==
    (Built /\ Lower(args.mode) \notin {S_load, S_export}) => raised # "none"

(***************************************************************************)
(* Claims about the row stream, the export parser and the session (Spec)   *)
(***************************************************************************)
\* every row in order, its fields joined by '|', a newline after each row
RECURSIVE EagerText(_)
EagerText(data) ==
    IF data = <<>> THEN <<>>
    ELSE Join(Head(data), <<"|">>) \o <<"\n">> \o EagerText(Tail(data))

Drained == op = "load_from_object" /\ pc = "copy_from" /\ eof

EqualWidths(data) == \A i \in 1..Len(data) : Len(data[i]) = Len(data[1])

\* C1 as stated: for any rows handed to load_from_object and any read
\* lengths >= 1, once read has returned '' the chunks returned, concatenated,
\* are the eager text of all the rows.
C1_RoundTripAnyRows == Drained => sent = EagerText(args.data)

\* C1 as amended: the same, for rows that all have as many fields as the
\* first row.
C1_RoundTripEqualWidths ==
    (Drained /\ EqualWidths(args.data)) => sent = EagerText(args.data)

\* two different rows of two fields each, read until read() returned ''
C1_Witness ==
    /\ Drained
    /\ Len(args.data) = 2
    /\ Len(args.data[1]) = 2 /\ Len(args.data[2]) = 2
    /\ args.data[1] # args.data[2]
    /\ sent = EagerText(args.data)

\* the mappings the rows stand for: column name -> value, in column order
Records(hdr, rows) ==
    [i \in 1..Len(rows) |-> [j \in 1..Len(hdr) |-> <<hdr[j], rows[i][j]>>]]

Captured == op = "export_to_object" /\ args # NoArgs /\ args.captured

\* C2: with header=True and an output of one header line and N >= 0 data
\* lines, export_to_object returns exactly the N mappings of the rows, in
\* order.
C2_HeaderRecords ==
    (Captured /\ args.call.header
              /\ \A i \in 1..Len(args.rows) : Len(args.rows[i]) = Len(args.hdr))
    => /\ raised = "none"
       /\ ret = List(Records(args.hdr, args.rows))

\* C3: with header=False and an output of N >= 1 data lines,
\* export_to_object returns the N lists of values, the first line included.
C3_PlainRecords ==
    (Captured /\ ~args.call.header /\ Len(args.rows) >= 1)
    => /\ raised = "none"
       /\ ret = List(args.rows)

\* C8: when pulling or formatting a row failed while the primitive was
\* reading, load_from_object ends with PostgrezLoadError and conn.commit is
\* not called; a commit means every row was pulled and formatted.
C8_CommitOnlyOnSuccess ==
    /\ (op = "load_from_object" /\ pc = "idle" /\ rowError)
           => (raised = "PostgrezLoadError" /\ ~committed)
    /\ (op = "load_from_object" /\ args # NoArgs /\ committed)
           => (~rowError /\ it = Len(args.data))

TransferOps ==
    {"load_from_object", "load_from_file", "export_to_object", "export_to_file"}

\* C9: a load or export called on a session without a live connection
\* raises PostgrezConnectionError, before a command is built and before the
\* primitive is called.
C9_ConnectionErrorFirst ==
    (op \in TransferOps /\ pc = "idle" /\ ~live)
    => (raised = "PostgrezConnectionError" /\ ~built /\ ~primitive)

\* C10: once control has left __exit__, on every path, cursor.close() and
\* conn.close() have both been attempted.
C10_BothClosesAttempted ==
    scope = "left" => (cursorCloseTried /\ connCloseTried)

\* C11: with header=True, when a data line has fewer or more fields than
\* the header has columns, export_to_object raises instead of returning
\* records.
C11_FieldCountMismatchRaises ==
    (Captured /\ args.call.header
              /\ \E i \in 1..Len(args.rows) : Len(args.rows[i]) # Len(args.hdr))
    => raised # "none"

\* C13: load_from_file on a live session with an existing readable file
\* hands the open file to the primitive, commits once and returns without
\* raising.
C13_LoadFromFileCommits ==
    (op = "load_from_file" /\ live /\ file # "none")
    => (raised = "none" /\ primitive /\ committed)

\* text after the first occurrence of part (<<>> when there is none)
AfterFirst(text, part) ==
    IF Contains(text, part)
    THEN LET i == CHOOSE k \in 1..(Len(text) - Len(part) + 1) :
                      /\ SubSeq(text, k, k + Len(part) - 1) = part
                      /\ \A j \in 1..(k-1) :
                             SubSeq(text, j, j + Len(part) - 1) # part
         IN  SubSeq(text, i + Len(part), Len(text))
    ELSE <<>>

\* the words of a text: its pieces between spaces, the empty ones left out
Words(text) ==
    LET NonEmpty(w) == w # <<>>
    IN  SelectSeq(Split(text, " "), NonEmpty)

Quoted(text) == <<"'">> \o text \o <<"'">>

\* the option clauses a call asks for, in the order HEADER, QUOTE, NULL
OptionWords(a) ==
    (IF a.header THEN << <<"H","E","A","D","E","R">> >> ELSE <<>>)
    \o (IF a.quote # <<>>
        THEN << <<"Q","U","O","T","E">>, Quoted(a.quote) >> ELSE <<>>)
    \o (IF a.null # <<>>
        THEN << <<"N","U","L","L">>, Quoted(a.null) >> ELSE <<>>)

\* C14: in the command of build_copy_query, HEADER is present iff header is
\* true, QUOTE '<q>' iff a quote character is set, NULL '<n>' iff a null
\* token is set; the clauses present follow CSV in the order HEADER, QUOTE,
\* NULL, q and n verbatim inside single quotes, and nothing else follows.
C14_OptionClauses ==
    (Built /\ args.mode \in ValidModes)
    => /\ ret.kind = "str"
       /\ Contains(ret.value, <<" ","C","S","V"," ">>)
       /\ Words(AfterFirst(ret.value, <<" ","C","S","V"," ">>))
              = OptionWords(args)

\* a command with all three clauses
C14_Witness ==
    /\ Built /\ args.mode \in ValidModes /\ ret.kind = "str"
    /\ args.header /\ args.quote # <<>> /\ args.null # <<>>
    /\ Len(Words(AfterFirst(ret.value, <<" ","C","S","V"," ">>))) = 5


\* the IteratorFile of a load_from_object call is being read
Reading == op = "load_from_object" /\ pc = "copy_from"

\* C12: read returns an empty result only when the row source has signalled
\* exhaustion (StopIteration) and no buffered text remains; it never reports
\* end-of-stream while rows remain to be pulled.
C12_EofOnlyWhenExhausted ==
    (Reading /\ eof) => (stopped /\ f = <<>>)

\* C15: once read has caught StopIteration, no later read pulls from the
\* source: every later read only moves text from the buffer to the reader,
\* and returns empty once the buffer is empty.
C15_NoPullAfterExhaustion ==
    [][(Reading /\ stopped /\ pc' = "copy_from")
        => /\ it' = it
           /\ stopped'
           /\ sent' \o f' = sent \o f
           /\ (f = <<>> => eof')]_vars

\* a read after the one that caught StopIteration has returned empty
C15_Witness ==
    /\ Reading /\ stopped /\ eof
    /\ it = Len(args.data) /\ Len(args.data) >= 2
    /\ sent = EagerText(args.data)

\* the formatted rows (newline included) among the first n of data
RECURSIVE LongestPulled(_, _)
LongestPulled(data, n) ==
    IF n = 0 THEN 0
    ELSE LET rest == LongestPulled(data, n - 1)
             this == IF FormatFails(Len(data[1]), data[n]) THEN 0
                     ELSE Len(FormatRow(Len(data[1]), data[n])) + 1
         IN  IF this > rest THEN this ELSE rest

\* C16: a row is pulled only while the buffer holds fewer than length
\* characters, each read returns at most length characters, and after every
\* read the retained buffer is strictly shorter than the longest formatted
\* row (newline included) pulled so far.
C16_BoundedBuffering ==
    [][\A length \in ReadLengths :
          (Reading /\ pc' = "copy_from" /\ ReadWith(length))
          => /\ (it' # it => Len(f) < length)
             /\ Len(sent') - Len(sent) <= length
             /\ Len(f') < LongestPulled(args.data, it')]_vars

\* a read has returned part of the buffer and retained the rest
C16_Witness ==
    /\ Reading /\ sent # <<>> /\ f # <<>>
    /\ Len(f) < LongestPulled(args.data, it)

\* the cursor and the connection have been opened and neither has been closed
OpenNotClosed == conn = "open" /\ cursor = "open"

\* C17: in every state of a session _connected() is true exactly when the
\* cursor and the connection have been opened and not yet closed, and
\* Cmd.execute called on a closed session raises PostgrezConnectionError
\* without calling cursor.execute.
C17_ConnectedIffOpen ==
    /\ _connected <=> OpenNotClosed
    /\ (op = "execute" /\ ~live)
           => (raised = "PostgrezConnectionError" /\ ~primitive)
=============================================================================
